---- MODULE Spec2Model ----
(***************************************************************************)
(* A model of the sbm bookmark-file library: the document model with its   *)
(* Display renderings (src/src/lib.rs) and the line-oriented parser        *)
(* (src/src/parser.rs).                                                    *)
(*                                                                         *)
(* A Rust String / &str is a sequence of one-character strings, so that    *)
(* splitting, trimming, prefix tests and formatting are computed character *)
(* by character as the code computes them.  Option<T> is a sequence of     *)
(* length 0 (None) or 1 (Some).  Result<T, &'static str> is a record       *)
(* [ok, val, err].                                                         *)
(***************************************************************************)
EXTENDS Integers, Sequences, FiniteSets, TLC

VARIABLES
    pc,          \* position of the modelled caller
    data,        \* the text handed to parse_categories
    lines,       \* the part of data.lines() the for loop has not consumed yet
    categories,  \* parse_categories: let mut categories
    current,     \* parse_categories: let mut current: Option<Category>
    result,      \* what parse_categories returned (Option<Result>)
    doc,         \* a Vec<Category> under construction / wrapped by Sbm::new
    rendered,    \* Option<String>: Sbm::to_string() of the document
    reparsed,    \* Option<Result>: parse_categories(rendered)
    orig,        \* the text before ignorable lines were inserted or deleted
    arg,         \* the &str handed to parse_bookmark / parse_header
    out          \* Option<Result> of that call

vars == <<pc, data, lines, categories, current, result, doc, rendered,
          reparsed, orig, arg, out>>

(***************************************************************************)
(* Bounds of the model.                                                    *)
(***************************************************************************)
MaxLines == 3
MaxArgLen == 5
MaxCats == 2
MaxBookmarks == 2
MaxEditLines == 2
MaxPadLines == 2
MaxPad == 1
MaxEolLines == 2
MaxEol == 2

(***************************************************************************)
(* Characters and std string primitives.                                   *)
(***************************************************************************)
NL == "\n"
CR == "\r"
PIPE == "|"
HASH == "#"
SLASH == "/"
SP == " "

None == <<>>
Some(x) == <<x>>
IsSome(o) == Len(o) = 1
Unwrap(o) == o[1]

Ok(v) == [ok |-> TRUE, val |-> v, err |-> ""]
Err(e) == [ok |-> FALSE, val |-> <<>>, err |-> e]

\* char::is_whitespace, restricted to the characters of the model
IsWhitespace(c) == c \in {SP, NL, CR, "\t"}

RECURSIVE trim_start(_)
trim_start(s) ==
    IF s # <<>> /\ IsWhitespace(Head(s)) THEN trim_start(Tail(s)) ELSE s

RECURSIVE trim_end(_)
trim_end(s) ==
    IF s # <<>> /\ IsWhitespace(s[Len(s)])
    THEN trim_end(SubSeq(s, 1, Len(s) - 1))
    ELSE s

\* trim removing leading whitespace only
trim_StartOnly(s) == trim_start(s)

\* str::trim
trim(s) == trim_end(trim_start(s))

\* str::starts_with
starts_with(s, p) == Len(s) >= Len(p) /\ SubSeq(s, 1, Len(p)) = p

\* str::strip_prefix(char): Some(rest) or None
strip_prefix(s, c) == IF s # <<>> /\ Head(s) = c THEN Some(Tail(s)) ELSE None

\* index of the first occurrence of c in s, 0 when there is none
RECURSIVE find_from(_, _, _)
find_from(s, c, i) ==
    IF i > Len(s) THEN 0
    ELSE IF s[i] = c THEN i
    ELSE find_from(s, c, i + 1)

find(s, c) == find_from(s, c, 1)

\* str::split(char): always at least one piece
RECURSIVE split(_, _)
split(s, c) ==
    LET i == find(s, c) IN
    IF i = 0 THEN <<s>>
    ELSE <<SubSeq(s, 1, i - 1)>> \o split(SubSeq(s, i + 1, Len(s)), c)

\* the closure of str::lines: drop the "\n" terminator, then one "\r" before it
LinesMap(piece) ==
    IF piece # <<>> /\ piece[Len(piece)] = NL
    THEN LET l == SubSeq(piece, 1, Len(piece) - 1) IN
         IF l # <<>> /\ l[Len(l)] = CR THEN SubSeq(l, 1, Len(l) - 1) ELSE l
    ELSE piece

\* str::lines = split_inclusive('\n').map(LinesMap); no piece for an empty rest
RECURSIVE str_lines(_)
str_lines(s) ==
    IF s = <<>> THEN <<>>
    ELSE LET i == find(s, NL) IN
         IF i = 0 THEN <<LinesMap(s)>>
         ELSE <<LinesMap(SubSeq(s, 1, i))>> \o str_lines(SubSeq(s, i + 1, Len(s)))

\* [String]::join(sep)
RECURSIVE join(_, _)
join(ss, sep) ==
    IF ss = <<>> THEN <<>>
    ELSE IF Len(ss) = 1 THEN ss[1]
    ELSE ss[1] \o sep \o join(Tail(ss), sep)

(***************************************************************************)
(* The document model, src/src/lib.rs.                                     *)
(***************************************************************************)
Bookmark_new(name, description, url) ==
    [name |-> name, description |-> description, url |-> url]

Header_new(name, icon) == [name |-> name, icon |-> icon]

Category_new(header) == [header |-> header, bookmarks |-> <<>>]

Sbm_new(cats) == cats

\* write!(f, "{}|{}|{}", name, description, url)
Bookmark_fmt(b) == b.name \o <<PIPE>> \o b.description \o <<PIPE>> \o b.url

\* Header_fmt with an empty icon printed like an absent one
Header_fmt_SkipEmptyIcon(h) ==
    IF IsSome(h.icon) /\ Unwrap(h.icon) # <<>>
    THEN <<HASH>> \o h.name \o <<PIPE>> \o Unwrap(h.icon)
    ELSE <<HASH>> \o h.name

Header_fmt(h) ==
    IF IsSome(h.icon)
    THEN <<HASH>> \o h.name \o <<PIPE>> \o Unwrap(h.icon)
    ELSE <<HASH>> \o h.name

\* write!(f, "{}\n{}", header, bookmarks.map(to_string).join("\n"))
Category_fmt(c) ==
    Header_fmt(c.header) \o <<NL>>
        \o join([i \in 1..Len(c.bookmarks) |-> Bookmark_fmt(c.bookmarks[i])], <<NL>>)

\* Sbm_fmt with a blank line between categories
Sbm_fmt_BlankLineJoin(s) ==
    join([i \in 1..Len(s) |-> Category_fmt(s[i])], <<NL, NL>>)

\* write!(f, "{}", categories.map(to_string).join("\n"))
Sbm_fmt(s) == join([i \in 1..Len(s) |-> Category_fmt(s[i])], <<NL>>)

(***************************************************************************)
(* The parser, src/src/parser.rs.                                          *)
(***************************************************************************)
ERR_BOOKMARK == "bookmark has wrong number of parts"
ERR_HEADER == "header has wrong number of parts"

split_pipe(line) == split(line, PIPE)

\* parse_bookmark rejecting only lines with fewer than three parts
parse_bookmark_AtLeast3(line) ==
    LET parts == split_pipe(line) IN
    IF Len(parts) < 3 THEN Err(ERR_BOOKMARK)
    ELSE Ok([name |-> trim(parts[1]),
             description |-> trim(parts[2]),
             url |-> trim(parts[3])])

\* parse_bookmark storing the first part untrimmed
parse_bookmark_NoTrimName(line) ==
    LET parts == split_pipe(line) IN
    IF Len(parts) # 3 THEN Err(ERR_BOOKMARK)
    ELSE Ok([name |-> parts[1],
             description |-> trim(parts[2]),
             url |-> trim(parts[3])])

parse_bookmark(line) ==
    LET parts == split_pipe(line) IN
    IF Len(parts) # 3 THEN Err(ERR_BOOKMARK)
    ELSE Ok([name |-> trim(parts[1]),
             description |-> trim(parts[2]),
             url |-> trim(parts[3])])

\* parse_header turning an empty second part into an absent icon
parse_header_EmptyIconNone(line) ==
    LET parts == split_pipe(line) IN
    IF Len(parts) # 1 /\ Len(parts) # 2 THEN Err(ERR_HEADER)
    ELSE Ok([name |-> trim(parts[1]),
             icon |-> IF Len(parts) >= 2 /\ trim(parts[2]) # <<>>
                      THEN Some(trim(parts[2])) ELSE None])

\* parse_header storing the second part untrimmed
parse_header_NoTrimIcon(line) ==
    LET parts == split_pipe(line) IN
    IF Len(parts) # 1 /\ Len(parts) # 2 THEN Err(ERR_HEADER)
    ELSE Ok([name |-> trim(parts[1]),
             icon |-> IF Len(parts) >= 2 THEN Some(parts[2]) ELSE None])

parse_header(line) ==
    LET parts == split_pipe(line) IN
    IF Len(parts) # 1 /\ Len(parts) # 2 THEN Err(ERR_HEADER)
    ELSE Ok([name |-> trim(parts[1]),
             icon |-> IF Len(parts) >= 2 THEN Some(trim(parts[2])) ELSE None])

\* IsIgnored without the blank-line test
IsIgnored_CommentsOnly(line) == starts_with(line, <<SLASH, SLASH>>)

\* IsIgnored with the comment test made on the trimmed line
IsIgnored_TrimmedComment(line) ==
    starts_with(trim(line), <<SLASH, SLASH>>) \/ trim(line) = <<>>

\* the guard of the `continue` at the head of the loop body
IsIgnored(line) == starts_with(line, <<SLASH, SLASH>>) \/ trim(line) = <<>>

\* whether the loop body takes the strip_prefix('#') branch
IsHeaderLine(line) == ~IsIgnored(line) /\ IsSome(strip_prefix(line, HASH))

\* the remaining lines: the else branch of strip_prefix
IsBookmarkLine(line) == ~IsIgnored(line) /\ ~IsSome(strip_prefix(line, HASH))

\* LoopBody with the pending category overwritten by a new header instead of
\* being pushed first
LoopBody_NoPush(st, line) ==
    IF IsIgnored(line) THEN st
    ELSE IF IsSome(strip_prefix(line, HASH))
    THEN LET header == parse_header(trim(Unwrap(strip_prefix(line, HASH))))
         IN IF header.ok
            THEN [st EXCEPT !.current = Some(Category_new(header.val))]
            ELSE [st EXCEPT !.current = None, !.ret = Some(Err(header.err))]
    ELSE IF IsSome(st.current)
    THEN LET bookmark == parse_bookmark(line)
             c == Unwrap(st.current)
         IN IF bookmark.ok
            THEN [st EXCEPT !.current =
                      Some([c EXCEPT !.bookmarks = Append(@, bookmark.val)])]
            ELSE [st EXCEPT !.ret = Some(Err(bookmark.err))]
    ELSE st

\* LoopBody parsing every bookmark line, also when no category is open
LoopBody_ParseOrphans(st, line) ==
    IF IsIgnored(line) THEN st
    ELSE IF IsSome(strip_prefix(line, HASH))
    THEN LET pushed == IF IsSome(st.current)
                       THEN Append(st.categories, Unwrap(st.current))
                       ELSE st.categories
             header == parse_header(trim(Unwrap(strip_prefix(line, HASH))))
         IN IF header.ok
            THEN [categories |-> pushed,
                  current |-> Some(Category_new(header.val)),
                  ret |-> None]
            ELSE [categories |-> pushed, current |-> None,
                  ret |-> Some(Err(header.err))]
    ELSE LET bookmark == parse_bookmark(line) IN
         IF ~bookmark.ok THEN [st EXCEPT !.ret = Some(Err(bookmark.err))]
         ELSE IF IsSome(st.current)
         THEN [st EXCEPT !.current =
                   Some([Unwrap(st.current) EXCEPT !.bookmarks = Append(@, bookmark.val)])]
         ELSE st

\* One iteration of `for line in data.lines()` on the loop state
\* st = [categories, current, ret]; ret is Some(Err(..)) once `?` returned.
LoopBody(st, line) ==
    IF IsIgnored(line) THEN st
    ELSE IF IsSome(strip_prefix(line, HASH))
    THEN LET pushed == IF IsSome(st.current)
                       THEN Append(st.categories, Unwrap(st.current))
                       ELSE st.categories
             header == parse_header(trim(Unwrap(strip_prefix(line, HASH))))
         IN IF header.ok
            THEN [categories |-> pushed,
                  current |-> Some(Category_new(header.val)),
                  ret |-> None]
            ELSE [categories |-> pushed, current |-> None,
                  ret |-> Some(Err(header.err))]
    ELSE IF IsSome(st.current)
    THEN LET bookmark == parse_bookmark(line)
             c == Unwrap(st.current)
         IN IF bookmark.ok
            THEN [st EXCEPT !.current =
                      Some([c EXCEPT !.bookmarks = Append(@, bookmark.val)])]
            ELSE [st EXCEPT !.ret = Some(Err(bookmark.err))]
    ELSE st

\* LoopExit without the push of the pending category
LoopExit_NoFinalPush(st) == Ok(st.categories)

\* after the loop: push the pending category and return Ok(categories)
LoopExit(st) ==
    Ok(IF IsSome(st.current)
       THEN Append(st.categories, Unwrap(st.current))
       ELSE st.categories)

RECURSIVE RunLoop(_, _)
RunLoop(st, ls) ==
    IF IsSome(st.ret) THEN Unwrap(st.ret)
    ELSE IF ls = <<>> THEN LoopExit(st)
    ELSE RunLoop(LoopBody(st, Head(ls)), Tail(ls))

LoopStart == [categories |-> <<>>, current |-> None, ret |-> None]

\* parse_categories as a function of its input text
parse_categories(text) == RunLoop(LoopStart, str_lines(text))

(***************************************************************************)
(* Inputs.                                                                 *)
(***************************************************************************)
\* the lines the input texts are made of: every kind of line the parser
\* distinguishes, well formed and malformed, padded and unpadded
LinePool ==
    { <<>>,
      <<SP>>,
      <<SLASH, SLASH, HASH, PIPE>>,
      <<HASH>>,
      <<HASH, "a">>,
      <<HASH, "b", PIPE>>,
      <<HASH, SP, "c", SP, PIPE, SP, "i", SP>>,
      <<HASH, "a", PIPE, "i", PIPE, "x">>,
      <<"n", PIPE, "d", PIPE, "u">>,
      <<SP, "m", SP, "m", SP, PIPE, PIPE, "v", SP>>,
      <<"n", PIPE, "d">>,
      <<"n", PIPE, "d", PIPE, "u", PIPE, "x">>,
      <<SP, HASH, "n", PIPE, "d", PIPE, "u">>,
      <<SP, SLASH, SLASH, PIPE, "d", PIPE, "u">> }

SeqsUpTo(S, n) == UNION {[1..k -> S] : k \in 0..n}

\* the texts of at most n pool lines, with and without a final newline
Texts(n) ==
    {join(ls, <<NL>>) \o t : ls \in SeqsUpTo(LinePool, n), t \in {<<>>, <<NL>>}}

(***************************************************************************)
(* Spec: parse_categories run line by line on a text, then the returned    *)
(* document rendered with Sbm::to_string and parsed again.                 *)
(***************************************************************************)
Init ==
    /\ data \in Texts(MaxLines)
    /\ pc = "loop"
    /\ lines = str_lines(data)
    /\ categories = <<>>
    /\ current = None
    /\ result = None /\ doc = <<>> /\ rendered = None /\ reparsed = None
    /\ orig = data /\ arg = <<>> /\ out = None

LoopState == [categories |-> categories, current |-> current, ret |-> None]

\* the effect of one loop iteration on the variables
Iterate ==
    LET st == LoopBody(LoopState, Head(lines)) IN
    /\ categories' = st.categories
    /\ current' = st.current
    /\ IF IsSome(st.ret)
       THEN result' = st.ret /\ pc' = "returned" /\ lines' = <<>>
       ELSE result' = result /\ pc' = pc /\ lines' = Tail(lines)
    /\ UNCHANGED <<data, doc, rendered, reparsed, orig, arg, out>>

\* a comment or blank line: continue
Continue ==
    /\ pc = "loop" /\ lines # <<>> /\ IsIgnored(Head(lines))
    /\ Iterate

\* a line starting with '#'
HeaderLine ==
    /\ pc = "loop" /\ lines # <<>> /\ IsHeaderLine(Head(lines))
    /\ Iterate

\* any other line while a category is open
BookmarkLine ==
    /\ pc = "loop" /\ lines # <<>> /\ IsBookmarkLine(Head(lines))
    /\ IsSome(current)
    /\ Iterate

\* any other line while no category is open: neither branch is taken
OrphanLine ==
    /\ pc = "loop" /\ lines # <<>> /\ IsBookmarkLine(Head(lines))
    /\ ~IsSome(current)
    /\ Iterate

\* the end of the loop
Return ==
    /\ pc = "loop" /\ lines = <<>>
    /\ result' = Some(LoopExit(LoopState))
    /\ categories' = result'[1].val
    /\ current' = None
    /\ pc' = "returned"
    /\ UNCHANGED <<data, lines, doc, rendered, reparsed, orig, arg, out>>

\* the caller wraps the returned categories and renders them
Render ==
    /\ pc = "returned" /\ IsSome(result) /\ Unwrap(result).ok
    /\ doc' = Sbm_new(Unwrap(result).val)
    /\ rendered' = Some(Sbm_fmt(doc'))
    /\ pc' = "rendered"
    /\ UNCHANGED <<data, lines, categories, current, result, reparsed, orig, arg, out>>

\* the rendering is parsed again
Reparse ==
    /\ pc = "rendered"
    /\ reparsed' = Some(parse_categories(Unwrap(rendered)))
    /\ pc' = "reparsed"
    /\ UNCHANGED <<data, lines, categories, current, result, doc, rendered, orig, arg, out>>

Next ==
    \/ Continue
    \/ HeaderLine
    \/ BookmarkLine
    \/ OrphanLine
    \/ Return
    \/ Render
    \/ Reparse

Spec == Init /\ [][Next]_vars

(***************************************************************************)
(* The vocabulary of the format description, stated on the characters of a *)
(* line and independently of the parser's operators.                       *)
(***************************************************************************)
SrcLines == str_lines(data)

BeginsWithComment(l) == Len(l) >= 2 /\ l[1] = SLASH /\ l[2] = SLASH
IsBlank(l) == \A i \in 1..Len(l) : IsWhitespace(l[i])
IsIgnorable(l) == BeginsWithComment(l) \/ IsBlank(l)
HeaderKind(l) == ~IsIgnorable(l) /\ l[1] = HASH
BookmarkKind(l) == ~IsIgnorable(l) /\ l[1] # HASH
NumFields(l) == 1 + Cardinality({i \in 1..Len(l) : l[i] = PIPE})

\* a bookmark line with no header line before it
Orphan(ls, i) == BookmarkKind(ls[i]) /\ \A j \in 1..(i - 1) : ~HeaderKind(ls[j])

Returned == pc = "returned" /\ IsSome(result)

(***************************************************************************)
(* C1.  Every text with a bookmark line before the first header line is    *)
(* rejected: parse_categories returns an error (the BookmarkBeforeHeader   *)
(* diagnostic) and no document.  The code has no such diagnostic and       *)
(* returns Ok, so this is stated as "no document is returned".             *)
(***************************************************************************)
\* C1: a text with a bookmark line before the first header line yields no document
C1_BookmarkBeforeHeaderRejected ==
    (Returned /\ \E i \in 1..Len(SrcLines) : Orphan(SrcLines, i))
        => ~Unwrap(result).ok

(***************************************************************************)
(* C4.  Grouping and order: a successful parse returns one category per    *)
(* header line, in source order; the bookmarks of the k-th category are    *)
(* the bookmark lines between the k-th header line and the next header     *)
(* line (or the end of the input), in source order.                        *)
(***************************************************************************)
\* the positions of the header lines, in source order
HeaderIdx ==
    SelectSeq([i \in 1..Len(SrcLines) |-> i], LAMBDA i : HeaderKind(SrcLines[i]))

\* the bookmark lines strictly between line lo and line hi
BookmarksBetween(lo, hi) ==
    LET idx == SelectSeq([i \in 1..Len(SrcLines) |-> i],
                         LAMBDA i : lo < i /\ i < hi /\ BookmarkKind(SrcLines[i]))
    IN [k \in 1..Len(idx) |-> parse_bookmark(SrcLines[idx[k]]).val]

\* C4: one category per header line, each holding the bookmark lines up to
\* the next header line, all in source order
C4_GroupingAndOrder ==
    (Returned /\ Unwrap(result).ok) =>
        LET cats == Unwrap(result).val
            h == HeaderIdx
        IN /\ Len(cats) = Len(h)
           /\ \A k \in 1..Len(h) :
                /\ cats[k].header = parse_header(trim(Tail(SrcLines[h[k]]))).val
                /\ cats[k].bookmarks =
                       BookmarksBetween(h[k], IF k < Len(h) THEN h[k + 1]
                                              ELSE Len(SrcLines) + 1)

\* two categories returned, the first without bookmarks, the last one (open
\* at the end of the input) with a bookmark
C4_Witness ==
    /\ Returned /\ Unwrap(result).ok
    /\ Len(Unwrap(result).val) = 2
    /\ Unwrap(result).val[1].bookmarks = <<>>
    /\ Len(Unwrap(result).val[2].bookmarks) = 1

(***************************************************************************)
(* C5.  Fail-fast: a text with an offending line (a header line with three *)
(* or more fields, a bookmark line whose field count is not three, a       *)
(* bookmark line with no open category) yields an error, of the kind of    *)
(* the earliest offending line.                                            *)
(***************************************************************************)
ERR_BEFORE_HEADER == "bookmark before header"

Offending(ls, i) ==
    \/ HeaderKind(ls[i]) /\ NumFields(ls[i]) >= 3
    \/ BookmarkKind(ls[i]) /\ NumFields(ls[i]) # 3
    \/ Orphan(ls, i)

KindOf(ls, i) ==
    IF HeaderKind(ls[i]) THEN ERR_HEADER
    ELSE IF Orphan(ls, i) THEN ERR_BEFORE_HEADER
    ELSE ERR_BOOKMARK

\* C5: an offending line makes the parse fail with the kind of the earliest one
C5_FailFast ==
    (Returned /\ \E i \in 1..Len(SrcLines) : Offending(SrcLines, i)) =>
        LET first == CHOOSE i \in 1..Len(SrcLines) :
                        /\ Offending(SrcLines, i)
                        /\ \A j \in 1..(i - 1) : ~Offending(SrcLines, j)
        IN /\ ~Unwrap(result).ok
           /\ Unwrap(result).err = KindOf(SrcLines, first)

(***************************************************************************)
(* C2.  Round trip on parsed documents: when parse_categories(t) returns   *)
(* Ok(d), parsing the rendering of d returns Ok(d).                        *)
(***************************************************************************)
RoundTrips(d) == pc = "reparsed" => Unwrap(reparsed) = Ok(d)

\* C2 as written: the round trip holds for every text that parses
C2_RoundTripEveryText == RoundTrips(Unwrap(result).val)

\* no bookmark name of d begins with '#' or with "//"
PlainBookmarkNames(d) ==
    \A k \in 1..Len(d) : \A j \in 1..Len(d[k].bookmarks) :
        LET n == d[k].bookmarks[j].name IN
        ~(Len(n) >= 1 /\ n[1] = HASH) /\ ~BeginsWithComment(n)

\* C2 as amended: the round trip holds for every text that parses to a
\* document whose bookmark names begin neither with '#' nor with "//"
C2_RoundTripPlainNames ==
    (pc = "reparsed" /\ PlainBookmarkNames(Unwrap(result).val))
        => RoundTrips(Unwrap(result).val)

\* a round trip through a category without bookmarks, a header with an empty
\* icon and a bookmark
C2_Witness ==
    /\ pc = "reparsed"
    /\ PlainBookmarkNames(doc)
    /\ \E k \in 1..Len(doc) : doc[k].bookmarks = <<>>
    /\ \E k \in 1..Len(doc) : doc[k].header.icon = Some(<<>>)
    /\ \E k \in 1..Len(doc) : doc[k].bookmarks # <<>>

(***************************************************************************)
(* SpecFn: parse_bookmark and parse_header called on every string of at    *)
(* most MaxArgLen characters over a small alphabet.                        *)
(***************************************************************************)
ArgAlphabet == {PIPE, SP, "a", "b"}

InitFn ==
    /\ pc = "call"
    /\ data = <<>> /\ lines = <<>> /\ categories = <<>> /\ current = None
    /\ result = None /\ doc = <<>> /\ rendered = None /\ reparsed = None
    /\ orig = <<>> /\ out = None
    /\ arg \in SeqsUpTo(ArgAlphabet, MaxArgLen)

CallParseBookmark ==
    /\ pc = "call"
    /\ out' = Some(parse_bookmark(arg))
    /\ pc' = "parse_bookmark"
    /\ UNCHANGED <<data, lines, categories, current, result, doc, rendered,
                   reparsed, orig, arg>>

CallParseHeader ==
    /\ pc = "call"
    /\ out' = Some(parse_header(arg))
    /\ pc' = "parse_header"
    /\ UNCHANGED <<data, lines, categories, current, result, doc, rendered,
                   reparsed, orig, arg>>

NextFn ==
    \/ CallParseBookmark
    \/ CallParseHeader

SpecFn == InitFn /\ [][NextFn]_vars

\* the position of the k-th '|' of s; 0 for k = 0, Len(s) + 1 when s has fewer
PipePos(s, k) ==
    IF k = 0 THEN 0
    ELSE IF k > NumFields(s) - 1 THEN Len(s) + 1
    ELSE CHOOSE i \in 1..Len(s) :
            /\ s[i] = PIPE
            /\ Cardinality({j \in 1..i : s[j] = PIPE}) = k

\* the k-th pipe-separated field of s: the characters between two separators
Field(s, k) == SubSeq(s, PipePos(s, k - 1) + 1, PipePos(s, k) - 1)

\* t is s without its leading and trailing whitespace, and nothing else
IsTrimOf(t, s) ==
    \E i \in 0..Len(s) : \E j \in i..Len(s) :
        /\ t = SubSeq(s, i + 1, j)
        /\ \A k \in 1..i : IsWhitespace(s[k])
        /\ \A k \in (j + 1)..Len(s) : IsWhitespace(s[k])
        /\ t # <<>> => ~IsWhitespace(t[1]) /\ ~IsWhitespace(t[Len(t)])

(***************************************************************************)
(* C6.  parse_bookmark(line) succeeds iff the line has exactly three       *)
(* pipe-separated fields (two '|'); then name, description and url are the *)
(* first, second and third field, trimmed; otherwise it returns the        *)
(* malformed-bookmark error and no bookmark.                               *)
(***************************************************************************)
\* C6: parse_bookmark accepts exactly the three-field lines and returns the
\* trimmed fields in order
C6_ParseBookmark ==
    pc = "parse_bookmark" =>
        LET r == Unwrap(out) IN
        /\ r.ok <=> NumFields(arg) = 3
        /\ r.ok <=> Cardinality({i \in 1..Len(arg) : arg[i] = PIPE}) = 2
        /\ r.ok => /\ IsTrimOf(r.val.name, Field(arg, 1))
                   /\ IsTrimOf(r.val.description, Field(arg, 2))
                   /\ IsTrimOf(r.val.url, Field(arg, 3))
        /\ ~r.ok => r.err = ERR_BOOKMARK /\ r.val = <<>>

\* a padded line accepted, with a field that is empty after trimming
C6_Witness ==
    /\ pc = "parse_bookmark" /\ Unwrap(out).ok
    /\ Unwrap(out).val.name # Field(arg, 1)
    /\ Unwrap(out).val.description = <<>>
    /\ Unwrap(out).val.url # <<>>

(***************************************************************************)
(* C7.  parse_header(body) succeeds iff the body has one or two fields;    *)
(* then name is the first field trimmed and the icon is present iff there  *)
(* is a second field (present and empty for "Name|"); three or more fields *)
(* give the malformed-header error.  A body with no '|', the empty body    *)
(* included, is accepted.                                                  *)
(***************************************************************************)
\* C7: parse_header accepts exactly the one- and two-field bodies; the icon is
\* present iff there is a second field
C7_ParseHeader ==
    pc = "parse_header" =>
        LET r == Unwrap(out) IN
        /\ r.ok <=> NumFields(arg) \in {1, 2}
        /\ r.ok => /\ IsTrimOf(r.val.name, Field(arg, 1))
                   /\ IsSome(r.val.icon) <=> NumFields(arg) = 2
                   /\ IsSome(r.val.icon) => IsTrimOf(Unwrap(r.val.icon), Field(arg, 2))
        /\ NumFields(arg) >= 3 => ~r.ok /\ r.err = ERR_HEADER /\ r.val = <<>>
        /\ (\A i \in 1..Len(arg) : arg[i] # PIPE) => r.ok /\ r.val.icon = None

\* "a|": the icon is present and empty
C7_Witness ==
    /\ pc = "parse_header" /\ Unwrap(out).ok
    /\ Unwrap(out).val.name # <<>>
    /\ Unwrap(out).val.icon = Some(<<>>)
    /\ arg[Len(arg)] = PIPE

(***************************************************************************)
(* SpecDoc: a document built with the constructors, rendered with          *)
(* Sbm::to_string, and the rendering parsed.                               *)
(***************************************************************************)
\* headers to construct: plain, with an empty icon, with an empty name, with
\* a name starting with '#', with a padded name, with a '|' in the name
HeaderPool ==
    { Header_new(<<"a">>, None),
      Header_new(<<"b">>, Some(<<>>)),
      Header_new(<<>>, Some(<<"i">>)),
      Header_new(<<HASH, "a">>, None),
      Header_new(<<"a", SP>>, None),
      Header_new(<<"a", PIPE, "b">>, None) }

\* bookmarks to construct: plain, all fields empty, a name starting with '#',
\* a name starting with "//", a padded name, a newline or a '|' in a field
BookmarkPool ==
    { Bookmark_new(<<"n">>, <<"d">>, <<"u">>),
      Bookmark_new(<<>>, <<>>, <<>>),
      Bookmark_new(<<HASH, "n">>, <<"d">>, <<"u">>),
      Bookmark_new(<<SLASH, SLASH>>, <<"d">>, <<"u">>),
      Bookmark_new(<<SP, "n">>, <<"d">>, <<"u">>),
      Bookmark_new(<<"n">>, <<"d", NL, "e">>, <<"u">>),
      Bookmark_new(<<"n">>, <<"d", PIPE, "e">>, <<"u">>) }

RECURSIVE CountBookmarks(_)
CountBookmarks(d) ==
    IF d = <<>> THEN 0 ELSE Len(Head(d).bookmarks) + CountBookmarks(Tail(d))

InitDoc ==
    /\ pc = "build"
    /\ doc = <<>>
    /\ data = <<>> /\ lines = <<>> /\ categories = <<>> /\ current = None
    /\ result = None /\ rendered = None /\ reparsed = None
    /\ orig = <<>> /\ arg = <<>> /\ out = None

\* categories.push(Category::new(Header::new(..)))
PushCategory ==
    /\ pc = "build" /\ Len(doc) < MaxCats
    /\ \E h \in HeaderPool : doc' = Append(doc, Category_new(h))
    /\ UNCHANGED <<pc, data, lines, categories, current, result, rendered,
                   reparsed, orig, arg, out>>

\* category.bookmarks.push(Bookmark::new(..)) on the last category
PushBookmark ==
    /\ pc = "build" /\ doc # <<>> /\ CountBookmarks(doc) < MaxBookmarks
    /\ \E b \in BookmarkPool :
          doc' = [doc EXCEPT ![Len(doc)].bookmarks = Append(@, b)]
    /\ UNCHANGED <<pc, data, lines, categories, current, result, rendered,
                   reparsed, orig, arg, out>>

\* Sbm::new(categories).to_string()
RenderDoc ==
    /\ pc = "build"
    /\ rendered' = Some(Sbm_fmt(Sbm_new(doc)))
    /\ pc' = "rendered"
    /\ UNCHANGED <<data, lines, categories, current, result, doc, reparsed,
                   orig, arg, out>>

NextDoc ==
    \/ PushCategory
    \/ PushBookmark
    \/ RenderDoc
    \/ Reparse

SpecDoc == InitDoc /\ [][NextDoc]_vars

\* the string fields of a document
FieldsOf(d) ==
    UNION { {d[k].header.name}
            \cup (IF IsSome(d[k].header.icon) THEN {Unwrap(d[k].header.icon)} ELSE {})
            \cup UNION { {d[k].bookmarks[j].name, d[k].bookmarks[j].description,
                          d[k].bookmarks[j].url} : j \in 1..Len(d[k].bookmarks) }
          : k \in 1..Len(d) }

Contains(s, c) == \E i \in 1..Len(s) : s[i] = c

(***************************************************************************)
(* C3.  A category with zero bookmarks renders as exactly its header line, *)
(* and the rendering of every document has no leading newline, no trailing *)
(* newline and no empty line.  Stated for documents whose fields hold no   *)
(* newline themselves.                                                     *)
(***************************************************************************)
NoStrayNewline(r) ==
    /\ r # <<>> => r[1] # NL /\ r[Len(r)] # NL
    /\ \A i \in 1..(Len(r) - 1) : ~(r[i] = NL /\ r[i + 1] = NL)

\* C3: an empty category renders as its header alone, and no rendering has a
\* leading, trailing or doubled newline
C3_EmptyCategoryRendering ==
    (pc = "rendered" /\ \A f \in FieldsOf(doc) : ~Contains(f, NL)) =>
        /\ \A k \in 1..Len(doc) :
              doc[k].bookmarks = <<>> => Category_fmt(doc[k]) = Header_fmt(doc[k].header)
        /\ NoStrayNewline(Unwrap(rendered))

(***************************************************************************)
(* C10.  Canonical rendering: a bookmark is name|description|url; a header *)
(* is #name|icon with an icon and #name without; a category with at least  *)
(* one bookmark is its header followed, for each bookmark in order, by a   *)
(* newline and the bookmark; a document is its categories in order joined  *)
(* by one newline, the empty string when there is none.                    *)
(***************************************************************************)
CanonBookmark(b) == <<b.name, <<PIPE>>, b.description, <<PIPE>>, b.url>>

CanonHeader(h) ==
    IF h.icon = None THEN <<<<HASH>>, h.name>>
    ELSE <<<<HASH>>, h.name, <<PIPE>>, h.icon[1]>>

\* the concatenation of a sequence of strings
RECURSIVE Concat(_)
Concat(ss) == IF ss = <<>> THEN <<>> ELSE Head(ss) \o Concat(Tail(ss))

\* for each string in order: a newline and the string
EachOnNewLine(ss) == Concat([i \in 1..Len(ss) |-> <<NL>> \o ss[i]])

\* C10: every rendering equals the canonical form assembled from its pieces
C10_CanonicalRendering ==
    pc = "rendered" =>
        /\ \A k \in 1..Len(doc) :
              LET c == doc[k]
                  bs == [j \in 1..Len(c.bookmarks) |-> Concat(CanonBookmark(c.bookmarks[j]))]
              IN /\ Header_fmt(c.header) = Concat(CanonHeader(c.header))
                 /\ \A j \in 1..Len(c.bookmarks) : Bookmark_fmt(c.bookmarks[j]) = bs[j]
                 /\ c.bookmarks # <<>> =>
                       Category_fmt(c) = Concat(CanonHeader(c.header)) \o EachOnNewLine(bs)
        /\ doc = <<>> => Unwrap(rendered) = <<>>
        /\ doc # <<>> =>
              Unwrap(rendered) =
                  Category_fmt(doc[1])
                      \o EachOnNewLine([k \in 1..(Len(doc) - 1) |-> Category_fmt(doc[k + 1])])

\* the shape of test_sbm_display: two categories of one bookmark each, the
\* first without icon, the second with one
C10_Witness ==
    /\ pc = "rendered"
    /\ Len(doc) = 2
    /\ doc[1].header.icon = None /\ Len(doc[1].bookmarks) = 1
    /\ IsSome(doc[2].header.icon) /\ Len(doc[2].bookmarks) = 1
    /\ doc[1].bookmarks # doc[2].bookmarks

(***************************************************************************)
(* C9.  Round trip on constructed documents: parsing the rendering of a    *)
(* constructed document d returns Ok(d).                                   *)
(***************************************************************************)
\* the precondition of the claim: no '|' in a field, no header name
\* beginning with '#'
NoPipeNoHashHeader(d) ==
    /\ \A f \in FieldsOf(d) : ~Contains(f, PIPE)
    /\ \A k \in 1..Len(d) : ~starts_with(d[k].header.name, <<HASH>>)

\* C9 as written: the round trip holds for every constructed document without
\* '|' in a field and without '#' at the start of a header name
C9_RoundTripConstructed ==
    (pc = "reparsed" /\ NoPipeNoHashHeader(doc)) => RoundTrips(doc)

\* the further precondition the code needs: every field is free of newlines
\* and of leading and trailing whitespace, and no bookmark name begins with
\* '#' or with "//"
CleanFields(d) ==
    /\ \A f \in FieldsOf(d) :
          /\ ~Contains(f, NL)
          /\ f # <<>> => ~IsWhitespace(f[1]) /\ ~IsWhitespace(f[Len(f)])
    /\ PlainBookmarkNames(d)

\* C9 as amended: the round trip holds for every such document whose fields
\* are clean as well
C9_RoundTripCleanFields ==
    (pc = "reparsed" /\ NoPipeNoHashHeader(doc) /\ CleanFields(doc))
        => RoundTrips(doc)

\* a clean document with a category without bookmarks before one with a
\* bookmark, round-tripped
C9_Witness ==
    /\ pc = "reparsed"
    /\ NoPipeNoHashHeader(doc) /\ CleanFields(doc)
    /\ Len(doc) = 2
    /\ doc[1].bookmarks = <<>>
    /\ doc[2].bookmarks # <<>>
    /\ Unwrap(reparsed) = Ok(doc)

(***************************************************************************)
(* SpecEdit: blank and comment lines inserted into and deleted from a      *)
(* text, at any line position; orig keeps the text as it was.              *)
(***************************************************************************)
\* lines to insert: empty, whitespace only, a comment holding '#' and '|'
IgnorablePool == { <<>>, <<SP>>, <<SLASH, SLASH, HASH, PIPE>> }

\* the text as its newline-separated pieces, and back
Pieces(text) == split(text, NL)
Unpieces(ps) == join(ps, <<NL>>)

InsertAt(ps, i, l) == SubSeq(ps, 1, i - 1) \o <<l>> \o SubSeq(ps, i, Len(ps))
RemoveAt(ps, i) == SubSeq(ps, 1, i - 1) \o SubSeq(ps, i + 1, Len(ps))

InitEdit ==
    /\ pc = "edit"
    /\ data \in Texts(MaxEditLines)
    /\ orig = data
    /\ lines = <<>> /\ categories = <<>> /\ current = None
    /\ result = None /\ doc = <<>> /\ rendered = None /\ reparsed = None
    /\ arg = <<>> /\ out = None

InsertIgnorable ==
    /\ pc = "edit"
    /\ Len(Pieces(data)) <= MaxEditLines
    /\ \E i \in 1..(Len(Pieces(data)) + 1) : \E l \in IgnorablePool :
          data' = Unpieces(InsertAt(Pieces(data), i, l))
    /\ UNCHANGED <<pc, lines, categories, current, result, doc, rendered,
                   reparsed, orig, arg, out>>

DeleteIgnorable ==
    /\ pc = "edit"
    /\ Len(Pieces(data)) >= 2
    /\ \E i \in 1..Len(Pieces(data)) :
          /\ IsIgnorable(Pieces(data)[i])
          /\ data' = Unpieces(RemoveAt(Pieces(data), i))
    /\ UNCHANGED <<pc, lines, categories, current, result, doc, rendered,
                   reparsed, orig, arg, out>>

\* the caller parses the edited text and the original one
ParseBoth ==
    /\ pc = "edit"
    /\ result' = Some(parse_categories(data))
    /\ out' = Some(parse_categories(orig))
    /\ pc' = "parsed"
    /\ UNCHANGED <<data, lines, categories, current, doc, rendered, reparsed,
                   orig, arg>>

NextEdit ==
    \/ InsertIgnorable
    \/ DeleteIgnorable
    \/ ParseBoth

SpecEdit == InitEdit /\ [][NextEdit]_vars

(***************************************************************************)
(* C8.  Inserting or deleting blank lines and comment lines, at any line   *)
(* position and any number of times, does not change what parse_categories *)
(* returns, document or error; a text of blank and comment lines only, the *)
(* empty text included, parses to the empty document.                      *)
(***************************************************************************)
\* C8: the parse result is unchanged by inserted and deleted blank and
\* comment lines
C8_IgnorableLines ==
    pc = "parsed" =>
        /\ result = out
        /\ (\A i \in 1..Len(Pieces(data)) : IsIgnorable(Pieces(data)[i]))
              => Unwrap(result) = Ok(<<>>)

\* a blank or comment line was added inside a text that parses to a category
\* with a bookmark
C8_Witness ==
    /\ pc = "parsed"
    /\ Len(Pieces(data)) > Len(Pieces(orig))
    /\ Unwrap(out).ok
    /\ Unwrap(out).val # <<>>
    /\ Unwrap(out).val[1].bookmarks # <<>>
    /\ IsIgnorable(Pieces(data)[2])
    /\ ~IsIgnorable(Pieces(data)[1])

(***************************************************************************)
(* SpecPad: spaces and tabs added to and removed from the two ends of the  *)
(* pipe-separated fields of header bodies and bookmark lines; orig keeps   *)
(* the text as it was.                                                     *)
(***************************************************************************)
PadChars == {SP, "\t"}

\* the part of a line that holds its fields: after the '#' of a header line,
\* the whole of a bookmark line
FieldPart(l) == IF HeaderKind(l) THEN Tail(l) ELSE l
WithFieldPart(l, body) == IF HeaderKind(l) THEN <<HASH>> \o body ELSE body

\* line l with field k replaced by f
WithField(l, k, f) ==
    WithFieldPart(l, join([split(FieldPart(l), PIPE) EXCEPT ![k] = f], <<PIPE>>))

FieldAt(l, k) == split(FieldPart(l), PIPE)[k]

\* the lines of the padded texts: headers and bookmark lines, with and without
\* padding to remove, well formed and malformed, and bookmark lines whose
\* first field begins with '#' or "//" behind its padding
PadLinePool ==
    { <<HASH, "a">>,
      <<HASH, "c", SP, PIPE, "i">>,
      <<"n", PIPE, "d", SP, PIPE, "u">>,
      <<"n", PIPE, "d">>,
      <<SP, HASH, "n", PIPE, "d", PIPE, "u">>,
      <<SP, SLASH, SLASH, PIPE, "d", PIPE, "u">> }

InitPad ==
    /\ pc = "edit"
    /\ data \in {join(ls, <<NL>>) : ls \in SeqsUpTo(PadLinePool, MaxPadLines)}
    /\ orig = data
    /\ lines = <<>> /\ categories = <<>> /\ current = None
    /\ result = None /\ doc = <<>> /\ rendered = None /\ reparsed = None
    /\ arg = <<>> /\ out = None

\* one padding character put before or after one field of one line
AddPadding ==
    /\ pc = "edit"
    /\ Len(orig) <= Len(data) /\ Len(data) < Len(orig) + MaxPad
    /\ \E i \in 1..Len(Pieces(data)) :
          LET l == Pieces(data)[i] IN
          /\ HeaderKind(l) \/ BookmarkKind(l)
          /\ \E k \in 1..NumFields(FieldPart(l)) : \E c \in PadChars :
             \E f \in {<<c>> \o FieldAt(l, k), FieldAt(l, k) \o <<c>>} :
                data' = Unpieces([Pieces(data) EXCEPT ![i] = WithField(l, k, f)])
    /\ UNCHANGED <<pc, lines, categories, current, result, doc, rendered,
                   reparsed, orig, arg, out>>

\* one padding character taken from the start or the end of one field
RemovePadding ==
    /\ pc = "edit"
    /\ Len(data) <= Len(orig)
    /\ \E i \in 1..Len(Pieces(data)) :
          LET l == Pieces(data)[i] IN
          /\ HeaderKind(l) \/ BookmarkKind(l)
          /\ \E k \in 1..NumFields(FieldPart(l)) :
                LET f == FieldAt(l, k) IN
                /\ f # <<>>
                /\ \/ /\ f[1] \in PadChars
                      /\ data' = Unpieces([Pieces(data) EXCEPT
                                              ![i] = WithField(l, k, Tail(f))])
                   \/ /\ f[Len(f)] \in PadChars
                      /\ data' = Unpieces([Pieces(data) EXCEPT
                                              ![i] = WithField(l, k, SubSeq(f, 1, Len(f) - 1))])
    /\ UNCHANGED <<pc, lines, categories, current, result, doc, rendered,
                   reparsed, orig, arg, out>>

NextPad ==
    \/ AddPadding
    \/ RemovePadding
    \/ ParseBoth

SpecPad == InitPad /\ [][NextPad]_vars

(***************************************************************************)
(* C11.  Two texts that differ only by spaces and tabs at the ends of the  *)
(* fields of header bodies and bookmark lines give the same result of      *)
(* parse_categories, document or error.                                    *)
(***************************************************************************)
\* C11 as written: padding added to or removed from any field, the first
\* field of a bookmark line included, never changes the result
C11_PaddingInsensitive == pc = "parsed" => result = out

\* a bookmark line whose first field, once trimmed, begins with '#' or "//"
MarkerFirstField(l) ==
    /\ BookmarkKind(l)
    /\ LET f == trim(split(l, PIPE)[1]) IN
       (f # <<>> /\ f[1] = HASH) \/ BeginsWithComment(f)

\* C11 as amended: the result is unchanged provided no bookmark line of the
\* text has a first field that, once trimmed, begins with '#' or "//"
C11_PaddingInsensitivePlain ==
    (pc = "parsed" /\ \A i \in 1..Len(Pieces(orig)) : ~MarkerFirstField(Pieces(orig)[i]))
        => result = out

\* the padded and the unpadded form of a text with a header and a well-formed
\* bookmark line, parsed to the same category
C11_Witness ==
    /\ pc = "parsed"
    /\ data # orig
    /\ \A i \in 1..Len(Pieces(orig)) : ~MarkerFirstField(Pieces(orig)[i])
    /\ Unwrap(out).ok /\ Unwrap(result).ok
    /\ Unwrap(out).val # <<>>
    /\ Unwrap(out).val[1].bookmarks # <<>>
    /\ Len(data) < Len(orig)

(***************************************************************************)
(* SpecEol: a newline appended to a text, and every "\n" of a text         *)
(* replaced by "\r\n"; orig keeps the text as it was.                      *)
(***************************************************************************)
\* lines of every kind, well formed and malformed, two of them already
\* ending in '\r'
EolLinePool ==
    { <<>>,
      <<SLASH, SLASH, "c">>,
      <<HASH, "a">>,
      <<HASH, "b", PIPE, CR>>,
      <<HASH, "a", PIPE, "i", PIPE, "x">>,
      <<"n", PIPE, "d", PIPE, "u">>,
      <<"n", PIPE, "d", PIPE, "u", CR>>,
      <<"n", PIPE, "d">> }

\* every "\n" replaced by "\r\n"
RECURSIVE ToCRLF(_)
ToCRLF(text) ==
    IF text = <<>> THEN <<>>
    ELSE IF Head(text) = NL THEN <<CR, NL>> \o ToCRLF(Tail(text))
    ELSE <<Head(text)>> \o ToCRLF(Tail(text))

InitEol ==
    /\ pc = "edit"
    /\ data \in {join(ls, <<NL>>) \o t : ls \in SeqsUpTo(EolLinePool, MaxEolLines),
                                         t \in {<<>>, <<NL>>}}
    /\ orig = data
    /\ lines = <<>> /\ categories = <<>> /\ current = None
    /\ result = None /\ doc = <<>> /\ rendered = None /\ reparsed = None
    /\ arg = <<>> /\ out = None

AppendNewline ==
    /\ pc = "edit"
    /\ Len(data) < Len(orig) + MaxEol
    /\ data' = data \o <<NL>>
    /\ UNCHANGED <<pc, lines, categories, current, result, doc, rendered,
                   reparsed, orig, arg, out>>

ConvertToCRLF ==
    /\ pc = "edit"
    /\ Len(data) <= Len(orig) + MaxEol
    /\ \E i \in 1..Len(data) : data[i] = NL
    /\ data' = ToCRLF(data)
    /\ UNCHANGED <<pc, lines, categories, current, result, doc, rendered,
                   reparsed, orig, arg, out>>

NextEol ==
    \/ AppendNewline
    \/ ConvertToCRLF
    \/ ParseBoth

SpecEol == InitEol /\ [][NextEol]_vars

(***************************************************************************)
(* C12.  Line-terminator insensitivity: a newline appended to a text, and  *)
(* "\r\n" in place of every "\n", change neither the document nor the      *)
(* error parse_categories returns; no field of the document ends in '\r'.  *)
(***************************************************************************)
\* C12: the result for the re-terminated text equals the result for the
\* original text, and no returned field ends in '\r'
C12_LineTerminators ==
    pc = "parsed" =>
        /\ result = out
        /\ Unwrap(result).ok =>
              \A f \in FieldsOf(Unwrap(result).val) : f = <<>> \/ f[Len(f)] # CR

\* a text without '\r' and without final newline, parsed to a category with
\* a bookmark, against the same text terminated by "\r\n" throughout
C12_Witness ==
    /\ pc = "parsed"
    /\ \A i \in 1..Len(orig) : orig[i] # CR
    /\ orig # <<>> /\ orig[Len(orig)] # NL
    /\ Len(data) >= 2 /\ data[Len(data) - 1] = CR /\ data[Len(data)] = NL
    /\ Unwrap(out).ok
    /\ Unwrap(out).val # <<>>
    /\ Unwrap(out).val[1].bookmarks # <<>>

(***************************************************************************)
(* C13.  Lenient handling before the first header: a bookmark line with no *)
(* header line before it is discarded unparsed.  Parsing a text gives what *)
(* parsing it without those lines gives, whatever their field count, and a *)
(* text without any header line parses to the empty list.                  *)
(***************************************************************************)
\* the lines of the text without the bookmark lines that precede every header
WithoutOrphans ==
    LET kept == SelectSeq([i \in 1..Len(SrcLines) |-> i],
                          LAMBDA i : ~Orphan(SrcLines, i))
    IN join([k \in 1..Len(kept) |-> SrcLines[kept[k]]], <<NL>>)

\* C13: the returned result is that of the text without its pre-header
\* bookmark lines, and Ok of the empty list when there is no header line
C13_LenientBeforeHeader ==
    Returned =>
        /\ Unwrap(result) = parse_categories(WithoutOrphans)
        /\ (\A i \in 1..Len(SrcLines) : ~HeaderKind(SrcLines[i]))
              => Unwrap(result) = Ok(<<>>)

\* a malformed bookmark line before the first header, and a category returned
C13_Witness ==
    /\ Returned /\ Unwrap(result).ok
    /\ Unwrap(result).val # <<>>
    /\ \E i \in 1..Len(SrcLines) :
          Orphan(SrcLines, i) /\ NumFields(SrcLines[i]) # 3

(***************************************************************************)
(* C14.  Line classification, decided in a fixed order on the raw line: a  *)
(* line beginning with "//" is a comment, whatever else it holds;          *)
(* otherwise a line that is empty once trimmed is blank; otherwise a line  *)
(* whose first character is '#' is a header line; every other line is a    *)
(* bookmark line.  A line with whitespace before '#' or "//" is therefore  *)
(* a bookmark line, subject to the three-field rule.                       *)
(***************************************************************************)
LineKind(l) ==
    IF Len(l) >= 2 /\ l[1] = SLASH /\ l[2] = SLASH THEN "comment"
    ELSE IF \A i \in 1..Len(l) : IsWhitespace(l[i]) THEN "blank"
    ELSE IF l[1] = HASH THEN "header"
    ELSE "bookmark"

\* what the loop does with a line of each kind: nothing for a comment or a
\* blank line; a new pending category or the header error for a header line;
\* with a category open, one more bookmark or the bookmark error, by the
\* field count, for a bookmark line
TreatedAsKind ==
    (pc = "loop" /\ lines # <<>>) =>
        LET l == Head(lines) IN
        /\ LineKind(l) \in {"comment", "blank"} =>
              UNCHANGED <<categories, current, result>>
        /\ LineKind(l) = "header" =>
              \/ /\ result' = None
                 /\ IsSome(current') /\ Unwrap(current').bookmarks = <<>>
                 /\ NumFields(l) <= 2
              \/ /\ result' = Some(Err(ERR_HEADER))
                 /\ NumFields(l) >= 3
        /\ (LineKind(l) = "bookmark" /\ IsSome(current)) =>
              \/ /\ result' = None
                 /\ NumFields(l) = 3
                 /\ categories' = categories
                 /\ Len(Unwrap(current').bookmarks) = Len(Unwrap(current).bookmarks) + 1
              \/ /\ result' = Some(Err(ERR_BOOKMARK))
                 /\ NumFields(l) # 3

\* C14: every step of the loop treats its line as the kind the fixed-order
\* classification of the raw line gives
C14_LineClassification == [][TreatedAsKind]_vars

\* a line with whitespace before '#' was taken as a bookmark line: the open
\* category holds a bookmark whose name begins with '#'
C14_Witness ==
    /\ pc = "loop"
    /\ IsSome(current)
    /\ \E j \in 1..Len(Unwrap(current).bookmarks) :
          starts_with(Unwrap(current).bookmarks[j].name, <<HASH>>)

(***************************************************************************)
(* C15.  Fields of parsed documents: every string field of a returned      *)
(* document has no leading or trailing whitespace, holds no '|' and no     *)
(* newline, and is the source field with only its leading and trailing     *)
(* whitespace removed, interior whitespace kept.                           *)
(***************************************************************************)
\* the positions of the bookmark lines strictly between line lo and line hi
BookmarkIdxBetween(lo, hi) ==
    SelectSeq([i \in 1..Len(SrcLines) |-> i],
              LAMBDA i : lo < i /\ i < hi /\ BookmarkKind(SrcLines[i]))

WellFormedField(f) ==
    /\ f # <<>> => ~IsWhitespace(f[1]) /\ ~IsWhitespace(f[Len(f)])
    /\ ~Contains(f, PIPE)
    /\ ~Contains(f, NL)

\* C15: each field of the returned document is well formed and is the trim
\* of the field at the same position of its source line
C15_ParsedFields ==
    (Returned /\ Unwrap(result).ok) =>
        LET cats == Unwrap(result).val
            h == HeaderIdx
        IN /\ \A f \in FieldsOf(cats) : WellFormedField(f)
           /\ Len(cats) = Len(h)
           /\ \A k \in 1..Len(h) :
                LET body == Tail(SrcLines[h[k]])
                    b == BookmarkIdxBetween(h[k], IF k < Len(h) THEN h[k + 1]
                                                  ELSE Len(SrcLines) + 1)
                IN /\ IsTrimOf(cats[k].header.name, Field(body, 1))
                   /\ IsSome(cats[k].header.icon) =>
                         IsTrimOf(Unwrap(cats[k].header.icon), Field(body, 2))
                   /\ Len(cats[k].bookmarks) = Len(b)
                   /\ \A j \in 1..Len(b) :
                         /\ IsTrimOf(cats[k].bookmarks[j].name, Field(SrcLines[b[j]], 1))
                         /\ IsTrimOf(cats[k].bookmarks[j].description,
                                     Field(SrcLines[b[j]], 2))
                         /\ IsTrimOf(cats[k].bookmarks[j].url, Field(SrcLines[b[j]], 3))

\* a returned document with a padded icon trimmed and a bookmark name that
\* kept its interior space
C15_Witness ==
    /\ Returned /\ Unwrap(result).ok
    /\ \E k \in 1..Len(Unwrap(result).val) :
          LET c == Unwrap(result).val[k] IN
          /\ IsSome(c.header.icon) /\ Unwrap(c.header.icon) # <<>>
          /\ \E j \in 1..Len(c.bookmarks) : Contains(c.bookmarks[j].name, SP)

(***************************************************************************)
(* C16.  The grouping state machine.  After any prefix of the lines        *)
(* processed without error, the finalized categories, plus one if a        *)
(* category is pending, are as many as the header lines seen, and no       *)
(* category is pending exactly when no header line was seen.  A comment or *)
(* blank line changes nothing; a bookmark line only appends one bookmark   *)
(* at the end of the pending category; a header line only appends the      *)
(* pending category, unmodified, at the end of the finalized list (and     *)
(* opens a new one).  Finalized categories are never modified or           *)
(* reordered.                                                              *)
(***************************************************************************)
\* the lines the loop has consumed
SeenLines == SubSeq(SrcLines, 1, Len(SrcLines) - Len(lines))

HeadersSeen == Cardinality({i \in 1..Len(SeenLines) : HeaderKind(SeenLines[i])})

GroupingInv ==
    pc = "loop" =>
        /\ Len(categories) + (IF IsSome(current) THEN 1 ELSE 0) = HeadersSeen
        /\ current = None <=> HeadersSeen = 0

IsPrefix(s, t) == Len(s) <= Len(t) /\ SubSeq(t, 1, Len(s)) = s

\* the frame of a loop step that ends without error
GroupingFrame ==
    /\ IsPrefix(categories, categories')
    /\ (pc = "loop" /\ lines # <<>> /\ result' = None) =>
          LET l == Head(lines) IN
          /\ IsIgnorable(l) => UNCHANGED <<categories, current>>
          /\ BookmarkKind(l) =>
                /\ categories' = categories
                /\ IF IsSome(current)
                   THEN /\ IsSome(current')
                        /\ Unwrap(current').header = Unwrap(current).header
                        /\ Len(Unwrap(current').bookmarks)
                              = Len(Unwrap(current).bookmarks) + 1
                        /\ IsPrefix(Unwrap(current).bookmarks, Unwrap(current').bookmarks)
                   ELSE current' = None
          /\ HeaderKind(l) =>
                /\ categories' = categories \o current
                /\ IsSome(current') /\ Unwrap(current').bookmarks = <<>>

\* C16: the count invariant holds where every step starts (every state of
\* the loop has a step: the next line, or the return), and every step keeps
\* to the frame of the kind of line it processes
C16_GroupingStateMachine == [][GroupingInv /\ GroupingFrame]_vars

\* two header lines seen: one category finalized, one pending with a bookmark
C16_Witness ==
    /\ pc = "loop"
    /\ Len(categories) = 1
    /\ IsSome(current)
    /\ Unwrap(current).bookmarks # <<>>

====
